---- MODULE Spec2Model ----
(***************************************************************************)
(* Payment-hold service (src/app.py): five HTTP handlers over one          *)
(* payment_hold table, behind JWT authentication and role gating.          *)
(*                                                                         *)
(* A handler is split into steps at its database round trips (each         *)
(* "await session.execute/commit"), so that requests interleave the way    *)
(* the asyncio event loop and several workers let them.  The table holds   *)
(* committed rows only; a row written by INSERT or UPDATE and not yet      *)
(* committed lives in the writing request (proc[p].row) and is invisible   *)
(* to every other request, as under PostgreSQL READ COMMITTED.             *)
(***************************************************************************)
EXTENDS Integers, Sequences, FiniteSets, TLC

(* Optional[T]: None is the empty tuple, a present value a 1-tuple. *)
None ==
    << >>
Some(x) ==
    << x >>
IsSome(o) ==
    o # None
Val(o) ==
    o[1]

---------------------------------------------------------------------------
(* Bounds of the model. *)

\* the clock runs over 0..MaxTime
MaxTime ==
    1
\* number of requests the service receives in one behaviour
MaxReq ==
    3

---------------------------------------------------------------------------
(* Inputs. *)

Procs ==
    {"w1", "w2"}

\* rows of the pre-existing client table
ClientTable ==
    {"cA", "cB"}
\* clientId path parameters: the clients and one unknown id
ClientIds ==
    ClientTable \cup {"cX"}

IdempotencyKeys ==
    {"K1", "K2"}

\* holdId path parameters: the ids the table can hand out (an id is unknown
\* until the table has handed it out)
HoldIds ==
    1 .. Cardinality(IdempotencyKeys)

ROLE_CREATE ==
    "ops.block:create"
ROLE_READ ==
    "ops.block:read"
ROLE_RELEASE ==
    "ops.block:release"

\* Authorization header: absent, a token jwt.decode rejects (malformed, wrong
\* signature, expired), or a token with the claims sub and roles, each optional.
Credentials(ok, sub, roles) ==
    Some([ok |-> ok, sub |-> sub, roles |-> roles])
Tokens ==
    { None,
      Credentials(FALSE, Some("ops1"), Some({ROLE_CREATE, ROLE_READ, ROLE_RELEASE})),
      Credentials(TRUE, Some("ops1"), Some({ROLE_CREATE, ROLE_READ, ROLE_RELEASE})),
      Credentials(TRUE, Some("ops2"), Some({ROLE_RELEASE})),
      Credentials(TRUE, Some("aud"), Some({ROLE_READ})),
      Credentials(TRUE, None, None) }

\* CreateHoldBody
CreateBodies ==
    { [type |-> "FRAUD_SUSPECT", comment |-> None, source |-> None, expiresAt |-> None] }
    \cup
    { [type |-> "INCORRECT_BENEFICIARY_DETAILS", comment |-> Some("c1"),
       source |-> Some("s1"), expiresAt |-> Some(e)] : e \in 1 .. MaxTime }

\* ReleaseBody | None
ReleaseBodies ==
    { None,
      Some([reason |-> None, comment |-> Some("rc")]),
      Some([reason |-> Some("r1"), comment |-> None]) }

StatusFilters ==
    {"ACTIVE", "RELEASED", "ALL"}

---------------------------------------------------------------------------
(* State. *)

VARIABLES
    holds,      \* the committed rows of payment_hold
    nextHoldId, \* the next hold_id the table generates
    now,        \* the clock
    proc,       \* the request each worker is in the middle of
    nreq,       \* number of requests received
    last,       \* the response the last step sent, with its request; NoResponse
                \* when the step sent none
    accepted,   \* idempotency keys for which a create has returned a hold
    released    \* per hold_id, the number of release requests answered 200

vars ==
    << holds, nextHoldId, now, proc, nreq, last, accepted, released >>

\* a request: the inputs of the five handlers, unused ones at their defaults
Request(op, tok, cid, key, body, hid, st, rbody) ==
    [op |-> op, token |-> tok, clientId |-> cid, idempotencyKey |-> key,
     body |-> body, holdId |-> hid, status |-> st, rbody |-> rbody]

NoBody ==
    [type |-> "FRAUD_SUSPECT", comment |-> None, source |-> None, expiresAt |-> None]

NoRow ==
    [holdId |-> 0]

\* the response fields a handler leaves empty
NoCheck ==
    [blocked |-> FALSE, kind |-> "NONE", activeHolds |-> {}]

Idle ==
    [pc |-> "idle",
     req |-> Request("none", None, "cX", "K1", NoBody, 0, "ALL", None),
     sub |-> "unknown", txStart |-> 0, row |-> NoRow]

\* no response in this step
NoResponse ==
    [req |-> Idle.req, code |-> 0, hold |-> NoRow, check |-> NoCheck, items |-> << >>]

Init ==
    /\ holds = {}
    /\ nextHoldId = 1
    /\ now = 0
    /\ proc = [p \in Procs |-> Idle]
    /\ nreq = 0
    /\ last = NoResponse
    /\ accepted = {}
    /\ released = [h \in HoldIds |-> 0]

---------------------------------------------------------------------------
(* Authentication and role gate. *)

Unauthorized ==
    [code |-> 401, sub |-> "unknown", roles |-> {}]

\* variant: a request without a token is an anonymous principal without roles
get_principal_Anonymous(token) ==
    IF token = None
    THEN [code |-> 0, sub |-> "unknown", roles |-> {}]
    ELSE IF ~Val(token).ok
         THEN Unauthorized
         ELSE [code |-> 0,
               sub |-> IF IsSome(Val(token).sub) THEN Val(Val(token).sub) ELSE "unknown",
               roles |-> IF IsSome(Val(token).roles) THEN Val(Val(token).roles) ELSE {}]

\* get_principal: 401 without a token or when jwt.decode raises; otherwise the
\* claims, sub defaulting to "unknown" and roles to the empty list
get_principal(token) ==
    IF token = None
    THEN Unauthorized
    ELSE IF ~Val(token).ok
         THEN Unauthorized
         ELSE [code |-> 0,
               sub |-> IF IsSome(Val(token).sub) THEN Val(Val(token).sub) ELSE "unknown",
               roles |-> IF IsSome(Val(token).roles) THEN Val(Val(token).roles) ELSE {}]

\* variant: any role at all passes the gate
require_roles_AnyRole(principal, required) ==
    principal.roles # {}

\* require_roles(*required).checker: any(r in principal.roles for r in required)
require_roles(principal, required) ==
    \E r \in required : r \in principal.roles

\* the dependency chain of a handler: 401, 403, or 0 when the principal passes
Depends(token, required) ==
    LET principal == get_principal(token)
    IN  IF principal.code = 401 THEN 401
        ELSE IF ~require_roles(principal, required) THEN 403
        ELSE 0

\* the role each route passes to require_roles
RequiredRoles(op) ==
    CASE op = "create"  -> {ROLE_CREATE}
      [] op = "list"    -> {ROLE_READ}
      [] op = "check"   -> {ROLE_READ}
      [] op = "get"     -> {ROLE_READ}
      [] op = "release" -> {ROLE_RELEASE}

---------------------------------------------------------------------------
(* Responses. *)

\* a handler returns or raises: the response is recorded
Respond(req, code, hold, check, items) ==
    last' = [req |-> req, code |-> code, hold |-> hold, check |-> check,
             items |-> items]

\* a step that sends no response
Quiet ==
    last' = NoResponse

\* a handler raises HTTPException(code), or an exception nothing catches (500)
Fail(req, code) ==
    Respond(req, code, NoRow, NoCheck, << >>)

\* a handler returns a hold
ReturnHold(req, code, hold) ==
    Respond(req, code, hold, NoCheck, << >>)

\* _row_to_hold: the thirteen columns of the row under their API names
_row_to_hold(m) ==
    [holdId |-> m.holdId, clientId |-> m.clientId, type |-> m.type,
     status |-> m.status, comment |-> m.comment, source |-> m.source,
     createdAt |-> m.createdAt, createdBy |-> m.createdBy,
     expiresAt |-> m.expiresAt, releasedAt |-> m.releasedAt,
     releasedBy |-> m.releasedBy, releaseReason |-> m.releaseReason,
     idempotencyKey |-> m.idempotencyKey]

---------------------------------------------------------------------------
(* create_hold. *)

\* variant: an expiresAt equal to the current time is let through
ExpiresAtRejected_Strict(body, t) ==
    IsSome(body.expiresAt) /\ Val(body.expiresAt) < t

\* body.expiresAt and body.expiresAt <= _now()
ExpiresAtRejected(body, t) ==
    IsSome(body.expiresAt) /\ Val(body.expiresAt) <= t

\* variant: the client lookup is skipped
ClientExists_Always(cid) ==
    TRUE

\* q_exists: SELECT 1 FROM client WHERE client_id = :cid
ClientExists(cid) ==
    cid \in ClientTable

\* variant: the lookup sees ACTIVE holds only
IdemRows_ActiveOnly(table, ik) ==
    {h \in table : h.idempotencyKey = ik /\ h.status = "ACTIVE"}

\* q_idem: SELECT * FROM payment_hold WHERE idempotency_key = :ik
IdemRows(table, ik) ==
    {h \in table : h.idempotencyKey = ik}

\* variant: the INSERT binds a fixed key instead of the request's
InsertValues_FixedKey(req, sub) ==
    [clientId |-> req.clientId, type |-> req.body.type, status |-> "ACTIVE",
     comment |-> req.body.comment, source |-> req.body.source,
     createdBy |-> sub, expiresAt |-> req.body.expiresAt,
     idempotencyKey |-> "K1"]

\* variant: the INSERT binds comment and source to each other's column
InsertValues_SwapsCommentSource(req, sub) ==
    [clientId |-> req.clientId, type |-> req.body.type, status |-> "ACTIVE",
     comment |-> req.body.source, source |-> req.body.comment,
     createdBy |-> sub, expiresAt |-> req.body.expiresAt,
     idempotencyKey |-> req.idempotencyKey]

\* the columns q_ins names and the values it binds to them
InsertValues(req, sub) ==
    [clientId |-> req.clientId, type |-> req.body.type, status |-> "ACTIVE",
     comment |-> req.body.comment, source |-> req.body.source,
     createdBy |-> sub, expiresAt |-> req.body.expiresAt,
     idempotencyKey |-> req.idempotencyKey]

\* the columns q_ins leaves to the table: a generated hold_id, created_at at
\* the transaction's now(), the release columns NULL
ColumnDefaults(id, t) ==
    [holdId |-> id, createdAt |-> t, releasedAt |-> None, releasedBy |-> None,
     releaseReason |-> None]

\* variant: the table has no unique constraint
UniqueViolation_Never(table, ik) ==
    FALSE

\* the unique constraint on idempotency_key, against the committed rows
UniqueViolation(table, ik) ==
    \E h \in table : h.idempotencyKey = ik

\* the row q_ins writes for request req of caller sub, in a transaction begun at t
NewRow(req, sub, id, t) ==
    InsertValues(req, sub) @@ ColumnDefaults(id, t)

\* an INSERT waits while another transaction holds an uncommitted row with its key
InsertWaits(p, ik) ==
    \E q \in Procs \ {p} :
        /\ proc[q].pc = "insert_commit"
        /\ proc[q].row.idempotencyKey = ik

\* the request arrives: dependencies, then the expiresAt check (lines 86-94)
CreateStart(p, token, cid, ik, body) ==
    LET req == Request("create", token, cid, ik, body, 0, "ALL", None)
        code == Depends(token, RequiredRoles("create"))
    IN  /\ proc[p].pc = "idle"
        /\ nreq < MaxReq
        /\ nreq' = nreq + 1
        /\ IF code # 0
           THEN /\ Fail(req, code)
                /\ UNCHANGED proc
           ELSE IF ExpiresAtRejected(body, now)
           THEN /\ Fail(req, 422)
                /\ UNCHANGED proc
           ELSE /\ proc' = [proc EXCEPT ![p] =
                        [Idle EXCEPT !.pc = "client_check", !.req = req,
                                     !.sub = get_principal(token).sub]]
                /\ Quiet
        /\ UNCHANGED << holds, nextHoldId, now, accepted, released >>

\* the session's first statement: the client lookup (lines 95-99)
CreateClientCheck(p) ==
    /\ proc[p].pc = "client_check"
    /\ IF ~ClientExists(proc[p].req.clientId)
       THEN /\ Fail(proc[p].req, 422)
            /\ proc' = [proc EXCEPT ![p] = Idle]
       ELSE /\ proc' = [proc EXCEPT ![p].pc = "key_lookup", ![p].txStart = now]
            /\ Quiet
    /\ UNCHANGED << holds, nextHoldId, now, nreq, accepted, released >>

\* variant: the lookup is by key and client
CreateKeyLookup_PerClient(p) ==
    LET rows == {h \in IdemRows(holds, proc[p].req.idempotencyKey) :
                    h.clientId = proc[p].req.clientId}
    IN  /\ proc[p].pc = "key_lookup"
        /\ IF rows # {}
           THEN /\ \E row \in rows :
                       ReturnHold(proc[p].req, 201, _row_to_hold(row))
                /\ proc' = [proc EXCEPT ![p] = Idle]
                /\ accepted' = accepted \cup {proc[p].req.idempotencyKey}
           ELSE /\ proc' = [proc EXCEPT ![p].pc = "insert"]
                /\ Quiet
                /\ UNCHANGED accepted
        /\ UNCHANGED << holds, nextHoldId, now, nreq, released >>

\* the idempotency lookup, LIMIT 1 (lines 101-104)
CreateKeyLookup(p) ==
    /\ proc[p].pc = "key_lookup"
    /\ IF IdemRows(holds, proc[p].req.idempotencyKey) # {}
       THEN /\ \E row \in IdemRows(holds, proc[p].req.idempotencyKey) :
                   ReturnHold(proc[p].req, 201, _row_to_hold(row))
            /\ proc' = [proc EXCEPT ![p] = Idle]
            /\ accepted' = accepted \cup {proc[p].req.idempotencyKey}
       ELSE /\ proc' = [proc EXCEPT ![p].pc = "insert"]
            /\ Quiet
            /\ UNCHANGED accepted
    /\ UNCHANGED << holds, nextHoldId, now, nreq, released >>

\* the INSERT ... RETURNING * (lines 106-123); a unique violation is not caught
CreateInsert(p) ==
    LET row == NewRow(proc[p].req, proc[p].sub, nextHoldId, proc[p].txStart)
    IN  /\ proc[p].pc = "insert"
        /\ ~InsertWaits(p, row.idempotencyKey)
        /\ IF UniqueViolation(holds, row.idempotencyKey)
           THEN /\ Fail(proc[p].req, 500)
                /\ proc' = [proc EXCEPT ![p] = Idle]
                /\ UNCHANGED nextHoldId
           ELSE /\ proc' = [proc EXCEPT ![p].pc = "insert_commit", ![p].row = row]
                /\ nextHoldId' = nextHoldId + 1
                /\ Quiet
        /\ UNCHANGED << holds, now, nreq, accepted, released >>

\* session.commit() and the 201 response (lines 124-125)
CreateCommit(p) ==
    /\ proc[p].pc = "insert_commit"
    /\ holds' = holds \cup {proc[p].row}
    /\ ReturnHold(proc[p].req, 201, _row_to_hold(proc[p].row))
    /\ accepted' = accepted \cup {proc[p].req.idempotencyKey}
    /\ proc' = [proc EXCEPT ![p] = Idle]
    /\ UNCHANGED << nextHoldId, now, nreq, released >>

---------------------------------------------------------------------------
(* list_holds, check_hold, get_hold: one SELECT each. *)

\* the rows of a client, all of them or those with the status asked for
ListRows(table, cid, status) ==
    IF status = "ALL"
    THEN {h \in table : h.clientId = cid}
    ELSE {h \in table : h.clientId = cid /\ h.status = status}

\* variant: ORDER BY created_at, oldest first
OrderByCreatedAtDesc_Ascending(rows) ==
    {s \in [1 .. Cardinality(rows) -> rows] :
        /\ \A i, j \in DOMAIN s : i # j => s[i] # s[j]
        /\ \A i, j \in DOMAIN s : i < j => s[i].createdAt <= s[j].createdAt}

\* ORDER BY created_at DESC: every order of the rows that is descending in
\* created_at (rows with equal created_at come in either order)
OrderByCreatedAtDesc(rows) ==
    {s \in [1 .. Cardinality(rows) -> rows] :
        /\ \A i, j \in DOMAIN s : i # j => s[i] # s[j]
        /\ \A i, j \in DOMAIN s : i < j => s[i].createdAt >= s[j].createdAt}

ListHolds(p, token, cid, status) ==
    LET req == Request("list", token, cid, "K1", NoBody, 0, status, None)
        code == Depends(token, RequiredRoles("list"))
    IN  /\ proc[p].pc = "idle"
        /\ nreq < MaxReq
        /\ nreq' = nreq + 1
        /\ IF code # 0
           THEN Fail(req, code)
           ELSE \E s \in OrderByCreatedAtDesc(ListRows(holds, cid, status)) :
                    Respond(req, 200, NoRow, NoCheck,
                            [i \in DOMAIN s |-> _row_to_hold(s[i])])
        /\ UNCHANGED << holds, nextHoldId, now, proc, accepted, released >>

\* variant: the SELECT forgets the status
ActiveRows_AnyStatus(table, cid) ==
    {h \in table : h.clientId = cid}

\* variant: expiry evaluated at read time, a hold past its expiresAt not selected
ActiveRows_Unexpired(table, cid) ==
    {h \in table : /\ h.clientId = cid
                   /\ h.status = "ACTIVE"
                   /\ (IsSome(h.expiresAt) => Val(h.expiresAt) > now)}

\* SELECT ... WHERE client_id = :cid AND status = 'ACTIVE'
ActiveRows(table, cid) ==
    {h \in table : h.clientId = cid /\ h.status = "ACTIVE"}

\* lines 155-161: blocked, kind and the active holds, from the rows selected
CheckResult(rows) ==
    LET blocked == Cardinality(rows) > 0
        types == {r.type : r \in rows}
    IN  [blocked |-> blocked,
         kind |-> IF blocked
                  THEN IF "FRAUD_SUSPECT" \in types THEN "FRAUD" ELSE "NON_FRAUD"
                  ELSE "NONE",
         activeHolds |-> {_row_to_hold(r) : r \in rows}]

CheckHold(p, token, cid) ==
    LET req == Request("check", token, cid, "K1", NoBody, 0, "ALL", None)
        code == Depends(token, RequiredRoles("check"))
    IN  /\ proc[p].pc = "idle"
        /\ nreq < MaxReq
        /\ nreq' = nreq + 1
        /\ IF code # 0
           THEN Fail(req, code)
           ELSE Respond(req, 200, NoRow, CheckResult(ActiveRows(holds, cid)), << >>)
        /\ UNCHANGED << holds, nextHoldId, now, proc, accepted, released >>

\* variant: the SELECT looks the hold up by hold_id alone
SelectOne_ByHoldId(table, cid, hid) ==
    {h \in table : h.holdId = hid}

\* SELECT ... WHERE client_id = :cid AND hold_id = :hid
SelectOne(table, cid, hid) ==
    {h \in table : h.clientId = cid /\ h.holdId = hid}

GetHold(p, token, cid, hid) ==
    LET req == Request("get", token, cid, "K1", NoBody, hid, "ALL", None)
        code == Depends(token, RequiredRoles("get"))
    IN  /\ proc[p].pc = "idle"
        /\ nreq < MaxReq
        /\ nreq' = nreq + 1
        /\ IF code # 0
           THEN Fail(req, code)
           ELSE IF SelectOne(holds, cid, hid) = {}
           THEN Fail(req, 404)
           ELSE \E row \in SelectOne(holds, cid, hid) :
                    ReturnHold(req, 200, _row_to_hold(row))
        /\ UNCHANGED << holds, nextHoldId, now, proc, accepted, released >>

---------------------------------------------------------------------------
(* release_hold. *)

\* variant: the status check is missing
AlreadyClosed_Never(row) ==
    FALSE

\* variant: only an EXPIRED hold counts as closed
AlreadyClosed_OnlyExpired(row) ==
    row.status = "EXPIRED"

\* row["status"] != "ACTIVE"
AlreadyClosed(row) ==
    row.status # "ACTIVE"

\* body.reason if body else None
ReleaseReason(rbody) ==
    IF rbody = None THEN None ELSE Val(rbody).reason

\* variant: the UPDATE closes the hold as EXPIRED
ReleaseSet_Expired(row, by, reason, t) ==
    [row EXCEPT !.status = "EXPIRED", !.releasedAt = Some(t),
                !.releasedBy = Some(by), !.releaseReason = reason]

\* variant: the UPDATE forgets released_by
ReleaseSet_NoReleasedBy(row, by, reason, t) ==
    [row EXCEPT !.status = "RELEASED", !.releasedAt = Some(t),
                !.releaseReason = reason]

\* variant: the UPDATE also stores the reason as the hold's comment
ReleaseSet_ReasonIntoComment(row, by, reason, t) ==
    [row EXCEPT !.status = "RELEASED", !.releasedAt = Some(t),
                !.releasedBy = Some(by), !.releaseReason = reason,
                !.comment = reason]

\* q_upd's SET clause: status, released_at = now() of the transaction,
\* released_by and release_reason; every other column keeps its value
ReleaseSet(row, by, reason, t) ==
    [row EXCEPT !.status = "RELEASED", !.releasedAt = Some(t),
                !.releasedBy = Some(by), !.releaseReason = reason]

\* q_upd's WHERE clause: hold_id alone
UpdateTargets(table, hid) ==
    {h \in table : h.holdId = hid}

\* an UPDATE waits while another transaction holds the row's lock
UpdateWaits(p) ==
    \E q \in Procs \ {p} :
        /\ proc[q].pc = "update_commit"
        /\ proc[q].row.holdId = proc[p].req.holdId

\* the request arrives: dependencies, then the SELECT and its two checks
\* (lines 175-191)
ReleaseStart(p, token, cid, hid, rbody) ==
    LET req == Request("release", token, cid, "K1", NoBody, hid, "ALL", rbody)
        code == Depends(token, RequiredRoles("release"))
    IN  /\ proc[p].pc = "idle"
        /\ nreq < MaxReq
        /\ nreq' = nreq + 1
        /\ IF code # 0
           THEN /\ Fail(req, code)
                /\ UNCHANGED proc
           ELSE IF SelectOne(holds, cid, hid) = {}
           THEN /\ Fail(req, 404)
                /\ UNCHANGED proc
           ELSE \E row \in SelectOne(holds, cid, hid) :
                    IF AlreadyClosed(row)
                    THEN /\ Fail(req, 409)
                         /\ UNCHANGED proc
                    ELSE /\ proc' = [proc EXCEPT ![p] =
                                 [Idle EXCEPT !.pc = "update", !.req = req,
                                              !.sub = get_principal(token).sub,
                                              !.txStart = now, !.row = row]]
                         /\ Quiet
        /\ UNCHANGED << holds, nextHoldId, now, accepted, released >>

\* the UPDATE ... RETURNING * (lines 193-203), on the row as committed now
ReleaseUpdate(p) ==
    /\ proc[p].pc = "update"
    /\ ~UpdateWaits(p)
    /\ \E target \in UpdateTargets(holds, proc[p].req.holdId) :
           proc' = [proc EXCEPT ![p].pc = "update_commit",
                                ![p].row = ReleaseSet(target, proc[p].sub,
                                               ReleaseReason(proc[p].req.rbody),
                                               proc[p].txStart)]
    /\ Quiet
    /\ UNCHANGED << holds, nextHoldId, now, nreq, accepted, released >>

\* session.commit() and the 200 response (lines 204-205)
ReleaseCommit(p) ==
    /\ proc[p].pc = "update_commit"
    /\ holds' = {IF h.holdId = proc[p].row.holdId THEN proc[p].row ELSE h : h \in holds}
    /\ ReturnHold(proc[p].req, 200, _row_to_hold(proc[p].row))
    /\ released' = [released EXCEPT ![proc[p].row.holdId] = @ + 1]
    /\ proc' = [proc EXCEPT ![p] = Idle]
    /\ UNCHANGED << nextHoldId, now, nreq, accepted >>

---------------------------------------------------------------------------
(* The clock. *)

Tick ==
    /\ now < MaxTime
    /\ now' = now + 1
    /\ Quiet
    /\ UNCHANGED << holds, nextHoldId, proc, nreq, accepted, released >>

---------------------------------------------------------------------------

\* one step of the service, its requests drawn from the sets of `in`
NextOn(in) ==
    \/ \E p \in in.procs, token \in in.tokens, cid \in in.clients,
          ik \in in.keys, body \in in.bodies :
            CreateStart(p, token, cid, ik, body)
    \/ \E p \in in.procs : CreateClientCheck(p)
    \/ \E p \in in.procs : CreateKeyLookup(p)
    \/ \E p \in in.procs : CreateInsert(p)
    \/ \E p \in in.procs : CreateCommit(p)
    \/ \E p \in in.procs, token \in in.tokens, cid \in in.clients,
          status \in in.filters :
            ListHolds(p, token, cid, status)
    \/ \E p \in in.procs, token \in in.tokens, cid \in in.clients :
            CheckHold(p, token, cid)
    \/ \E p \in in.procs, token \in in.tokens, cid \in in.clients,
          hid \in in.holdIds :
            GetHold(p, token, cid, hid)
    \/ \E p \in in.procs, token \in in.tokens, cid \in in.clients,
          hid \in in.holdIds, rbody \in in.rbodies :
            ReleaseStart(p, token, cid, hid, rbody)
    \/ \E p \in in.procs : ReleaseUpdate(p)
    \/ \E p \in in.procs : ReleaseCommit(p)
    \/ Tick

\* the tokens of Tokens that carry the subject sub
TokensOf(subs) ==
    {t \in Tokens : get_principal(t).code = 0 /\ get_principal(t).sub \in subs}

\* one request at a time, from a caller who holds every role
Sequential ==
    [procs |-> {"w1"}, tokens |-> TokensOf({"ops1"}), clients |-> ClientIds,
     keys |-> IdempotencyKeys, bodies |-> CreateBodies,
     filters |-> StatusFilters, holdIds |-> HoldIds, rbodies |-> ReleaseBodies]

\* two requests at a time, from two callers, on one client
Concurrent ==
    [procs |-> Procs, tokens |-> TokensOf({"ops1", "ops2"}),
     clients |-> {"cA"}, keys |-> IdempotencyKeys,
     bodies |-> {b \in CreateBodies : b.expiresAt = None},
     filters |-> {"ACTIVE"}, holdIds |-> HoldIds, rbodies |-> ReleaseBodies]

\* one request at a time, with every kind of Authorization header
Gated ==
    [procs |-> {"w1"}, tokens |-> Tokens, clients |-> {"cA", "cX"},
     keys |-> {"K1"}, bodies |-> CreateBodies,
     filters |-> {"ALL"}, holdIds |-> HoldIds, rbodies |-> {None}]

Next ==
    NextOn(Sequential)

Spec ==
    Init /\ [][Next]_vars

NextConc ==
    NextOn(Concurrent)

SpecConc ==
    Init /\ [][NextConc]_vars

NextGate ==
    NextOn(Gated)

SpecGate ==
    Init /\ [][NextGate]_vars

\* a caller other than ops1 who holds the create role
SecondCreator ==
    Credentials(TRUE, Some("ops3"), Some({ROLE_CREATE}))

\* one request at a time, from two callers who may create, on one key
Replayed ==
    [procs |-> {"w1"}, tokens |-> TokensOf({"ops1"}) \cup {SecondCreator},
     clients |-> ClientTable, keys |-> {"K1"}, bodies |-> CreateBodies,
     filters |-> {"ALL"}, holdIds |-> {1}, rbodies |-> {None}]

NextReplay ==
    NextOn(Replayed)

SpecReplay ==
    Init /\ [][NextReplay]_vars

---------------------------------------------------------------------------
(* Properties.  A step that sends a response leaves it in last', with the   *)
(* request it answers; the unprimed variables are the state the step found. *)

\* this step sends a response
Responds ==
    last' # NoResponse

\* this step receives a request (every handler runs its dependencies and its
\* first checks in the step that receives the request)
Arrives ==
    nreq' = nreq + 1

\* the rows stored under an idempotency key
RowsOfKey(k) ==
    {h \in holds : h.idempotencyKey = k}

\* the caller of a request is authenticated and holds the role
HasRole(req, role) ==
    /\ req.token # None
    /\ Val(req.token).ok
    /\ IsSome(Val(req.token).roles)
    /\ role \in Val(Val(req.token).roles)

\* the expiresAt of a create request is present and not after time t
PastDated(req, t) ==
    /\ req.body.expiresAt # None
    /\ Val(req.body.expiresAt) <= t

(* C1: once a create with Idempotency-Key K has returned a hold, every later
   create with key K of a caller with the create role, for an existing client
   and with an expiresAt that is not past-dated when it arrives, is answered 201 with the row stored under K,
   equal to it in every field, and the table is left as it was. *)
C1_SequentialReplay ==
    [][ (/\ Responds
         /\ last'.req.op = "create"
         /\ HasRole(last'.req, "ops.block:create")
         /\ last'.req.idempotencyKey \in accepted
         /\ last'.req.clientId \in ClientTable
         /\ ~(Arrives /\ PastDated(last'.req, now)))
        => (/\ last'.code = 201
            /\ \E h \in RowsOfKey(last'.req.idempotencyKey) : last'.hold = h
            /\ holds' = holds) ]_vars

\* a create is answered with a hold that a release has closed since it was made
C1_Witness ==
    /\ last.req.op = "create"
    /\ last.code = 201
    /\ last.hold.status = "RELEASED"
    /\ last.hold \in holds

(* C2: under every interleaving of create requests the table holds at most
   one row per idempotencyKey, and exactly one row for every key for which a
   create has returned a hold. *)
C2_OneRowPerKey ==
    /\ \A k \in IdempotencyKeys : Cardinality(RowsOfKey(k)) <= 1
    /\ \A k \in accepted : Cardinality(RowsOfKey(k)) = 1

\* a create that found no row for its key is about to insert, and the row of
\* a concurrent create with the same key has been committed meanwhile
C2_Witness ==
    \E p \in Procs :
        /\ proc[p].pc = "insert"
        /\ RowsOfKey(proc[p].req.idempotencyKey) # {}
        /\ proc[p].req.idempotencyKey \in accepted

(* C3: no create request ends in a server error (500) because its key is
   already in the table: the create that loses the insertion race is answered
   201 with the row already inserted. *)
C3_LoserGetsInsertedHold ==
    (last.req.op = "create" /\ last.code \notin {401, 403, 422})
        => (last.code = 201 /\ last.hold \in RowsOfKey(last.req.idempotencyKey))

(* C4: a release request of a caller with the release role, for a hold stored
   under (clientId, holdId) with a status other than ACTIVE, is answered 409
   and leaves the table as it was. *)
C4_ReleaseOfClosedHoldConflicts ==
    [][ /\ (/\ Arrives
            /\ Responds
            /\ last'.req.op = "release"
            /\ HasRole(last'.req, "ops.block:release")
            /\ \E h \in holds : /\ h.clientId = last'.req.clientId
                                 /\ h.holdId = last'.req.holdId
                                 /\ h.status # "ACTIVE")
           => (last'.code = 409 /\ holds' = holds /\ proc' = proc)
        /\ \A p \in Procs :
              (proc[p].pc = "idle" /\ proc'[p].pc = "update")
                  => \E h \in holds : /\ h.clientId = proc'[p].req.clientId
                                       /\ h.holdId = proc'[p].req.holdId
                                       /\ h.status = "ACTIVE" ]_vars

\* the second of two releases of one hold is answered 409
C4_Witness ==
    /\ last.req.op = "release"
    /\ last.code = 409
    /\ released[last.req.holdId] = 1

(* C5: releasedAt, releasedBy and releaseReason are written once: no step
   changes them on a hold that is RELEASED, and at most one release request
   per hold is answered 200, under every interleaving of release requests. *)
C5_ReleaseFieldsWrittenOnce ==
    [][ /\ \A h \in holds :
              h.status = "RELEASED"
                  => \E g \in holds' : /\ g.holdId = h.holdId
                                        /\ g.releasedAt = h.releasedAt
                                        /\ g.releasedBy = h.releasedBy
                                        /\ g.releaseReason = h.releaseReason
        /\ \A id \in HoldIds : released'[id] <= 1 ]_vars

(* C6: a hold enters the table ACTIVE; a step changes a hold's status only
   from ACTIVE to RELEASED; a RELEASED hold stays RELEASED; a hold of the table
   is in the table, under the same holdId, after every step. *)
C6_Lifecycle ==
    [][ /\ \A g \in holds' :
              (\A h \in holds : h.holdId # g.holdId) => g.status = "ACTIVE"
        /\ \A h \in holds :
              \E g \in holds' :
                  /\ g.holdId = h.holdId
                  /\ \/ g.status = h.status
                     \/ (h.status = "ACTIVE" /\ g.status = "RELEASED")
        /\ \A h \in holds, g \in holds' :
              (h.holdId = g.holdId /\ h.status = "RELEASED") => g.status = "RELEASED"
      ]_vars

\* a hold has been released, and released a second time by a concurrent request
C6_Witness ==
    \E h \in holds : h.status = "RELEASED" /\ released[h.holdId] = 2

(* C7 as claimed: on every hold releasedAt, releasedBy and releaseReason are
   all non-null exactly when the status is RELEASED. *)
C7_ReleaseFieldsIffReleased ==
    \A h \in holds :
        (h.releasedAt # None /\ h.releasedBy # None /\ h.releaseReason # None)
            <=> h.status = "RELEASED"

(* C7 as amended: on every hold releasedAt and releasedBy are non-null
   exactly when the status is RELEASED; releaseReason is non-null only when
   the status is RELEASED, and a release answered 200 stores the reason of its
   request, which is null when the request has no body or no reason. *)
C7_ReleaseStampIffReleased ==
    /\ \A h \in holds :
          /\ h.releasedAt # None <=> h.status = "RELEASED"
          /\ h.releasedBy # None <=> h.status = "RELEASED"
          /\ h.releaseReason # None => h.status = "RELEASED"
    /\ (last.req.op = "release" /\ last.code = 200)
          => /\ last.hold \in holds
             /\ last.req.rbody = None => last.hold.releaseReason = None
             /\ last.req.rbody # None
                    => last.hold.releaseReason = Val(last.req.rbody).reason

\* a release without a body has been answered 200: the hold is RELEASED and
\* its releaseReason is null
C7_Witness ==
    /\ last.req.op = "release"
    /\ last.code = 200
    /\ last.req.rbody = None
    /\ \E h \in holds : /\ h.holdId = last.req.holdId
                         /\ h.status = "RELEASED"
                         /\ h.releaseReason = None

(* C8: check answers blocked = true exactly when the client has an ACTIVE
   hold; kind FRAUD exactly when an ACTIVE hold of the client has type
   FRAUD_SUSPECT, NON_FRAUD exactly when the client has ACTIVE holds and none
   of that type, NONE exactly when it has no ACTIVE hold; activeHolds is the
   set of the client's ACTIVE holds. *)
C8_CheckClassifies ==
    (last.req.op = "check" /\ last.code = 200)
        => LET mine == {h \in holds : h.clientId = last.req.clientId}
               anyActive == \E h \in mine : h.status = "ACTIVE"
               anyFraud == \E h \in mine : /\ h.status = "ACTIVE"
                                            /\ h.type = "FRAUD_SUSPECT"
           IN  /\ last.check.blocked <=> anyActive
               /\ last.check.kind = "FRAUD" <=> anyFraud
               /\ last.check.kind = "NON_FRAUD" <=> (anyActive /\ ~anyFraud)
               /\ last.check.kind = "NONE" <=> ~anyActive
               /\ \A h \in holds :
                     h \in last.check.activeHolds
                         <=> (h \in mine /\ h.status = "ACTIVE")
               /\ last.check.activeHolds \subseteq holds

\* check answers NON_FRAUD for a client while another client has an ACTIVE
\* FRAUD_SUSPECT hold
C8_Witness ==
    /\ last.req.op = "check"
    /\ last.code = 200
    /\ last.check.kind = "NON_FRAUD"
    /\ \E h \in holds : /\ h.clientId # last.req.clientId
                         /\ h.status = "ACTIVE"
                         /\ h.type = "FRAUD_SUSPECT"

\* the role an operation requires, as the claim lists them
C9_RoleOf(op) ==
    CASE op = "create"  -> "ops.block:create"
      [] op = "release" -> "ops.block:release"
      [] OTHER          -> "ops.block:read"

\* the caller of a request is authenticated
Authenticated(req) ==
    req.token # None /\ Val(req.token).ok

(* C9: a request of an authenticated caller whose roles do not contain the
   role of the operation is answered 403 in the step that receives it,
   whatever its payload; the table is left as it was and the request goes no
   further. *)
C9_RoleGate ==
    [][ /\ (/\ Responds
            /\ Authenticated(last'.req)
            /\ ~HasRole(last'.req, C9_RoleOf(last'.req.op)))
           => (last'.code = 403 /\ Arrives /\ holds' = holds /\ proc' = proc)
        /\ \A p \in Procs :
              proc'[p].pc # "idle"
                  => HasRole(proc'[p].req, C9_RoleOf(proc'[p].req.op)) ]_vars

\* a caller with the read role alone is refused the release of an ACTIVE hold
\* of the client it names
C9_Witness ==
    /\ last.req.op = "release"
    /\ last.code = 403
    /\ HasRole(last.req, "ops.block:read")
    /\ \E h \in holds : /\ h.clientId = last.req.clientId
                         /\ h.holdId = last.req.holdId
                         /\ h.status = "ACTIVE"

(* C10: a create request of a caller with the create role, whose expiresAt is
   present and not after the current time, is answered 422 in the step that
   receives it and inserts no row, whether or not its client exists and
   whether or not its key is in the table. *)
C10_PastExpiresAtRejected ==
    [][ Arrives =>
          /\ (/\ Responds
              /\ last'.req.op = "create"
              /\ HasRole(last'.req, "ops.block:create")
              /\ PastDated(last'.req, now))
             => (last'.code = 422 /\ holds' = holds /\ proc' = proc)
          /\ \A p \in Procs :
                (proc[p].pc = "idle" /\ proc'[p].pc # "idle"
                    /\ proc'[p].req.op = "create")
                    => ~PastDated(proc'[p].req, now) ]_vars

\* a create with a past-dated expiresAt, for an unknown client and with a key
\* that is in the table, is answered 422
C10_Witness ==
    /\ last.req.op = "create"
    /\ last.code = 422
    /\ PastDated(last.req, now)
    /\ last.req.clientId \notin ClientTable
    /\ RowsOfKey(last.req.idempotencyKey) # {}

(* C11: a create request of a caller with the create role, for a clientId
   that is not in the client table, is answered 422 and inserts no row; no
   such request ever gets past the client lookup, and every hold's clientId
   is in the client table. *)
C11_UnknownClientRejected ==
    [][ /\ (/\ Responds
            /\ last'.req.op = "create"
            /\ HasRole(last'.req, "ops.block:create")
            /\ last'.req.clientId \notin ClientTable)
           => (last'.code = 422 /\ holds' = holds)
        /\ \A p \in Procs :
              proc'[p].pc \in {"key_lookup", "insert", "insert_commit"}
                  => proc'[p].req.clientId \in ClientTable
        /\ \A h \in holds' : h.clientId \in ClientTable ]_vars

\* a create whose expiresAt is absent or in the future, with a key that is in
\* the table, is answered 422 because its client is unknown
C11_Witness ==
    /\ last.req.op = "create"
    /\ last.code = 422
    /\ last.req.clientId \notin ClientTable
    /\ ~PastDated(last.req, now)
    /\ RowsOfKey(last.req.idempotencyKey) # {}

(* C12: a get or release request of a caller with the role of the operation,
   whose pair (clientId, holdId) matches no hold, is answered 404 in the step
   that receives it; the table and the workers are left as they were, also
   when the holdId is that of a hold of another client. *)
C12_PairLookup ==
    [][ (/\ Responds
         /\ last'.req.op \in {"get", "release"}
         /\ HasRole(last'.req, C9_RoleOf(last'.req.op))
         /\ ~ \E h \in holds : /\ h.clientId = last'.req.clientId
                               /\ h.holdId = last'.req.holdId)
        => (last'.code = 404 /\ Arrives /\ holds' = holds /\ proc' = proc) ]_vars

\* a release addressed to one client with the holdId of another client's
\* ACTIVE hold is answered 404, and the hold is still ACTIVE
C12_Witness ==
    /\ last.req.op = "release"
    /\ last.code = 404
    /\ \E h \in holds : /\ h.holdId = last.req.holdId
                         /\ h.clientId # last.req.clientId
                         /\ h.status = "ACTIVE"
                         /\ released[h.holdId] = 0

(* C13: when a create request has passed the role gate, the expiresAt check
   and the client lookup, and a hold exists for its Idempotency-Key, its next
   step answers 201 with that hold as it is stored and leaves the table as it
   was, whatever the request's type, comment, source, expiresAt, caller and
   path clientId are; a create addressed to another client than the hold's
   gets the hold of the first client and creates none for its own. *)
C13_ReplayIgnoresRequest ==
    [][ \A p \in Procs :
           (/\ proc[p].pc = "key_lookup"
            /\ proc'[p] # proc[p]
            /\ RowsOfKey(proc[p].req.idempotencyKey) # {})
           => (/\ last'.req = proc[p].req
               /\ last'.code = 201
               /\ last'.hold \in RowsOfKey(proc[p].req.idempotencyKey)
               /\ holds' = holds
               /\ proc'[p].pc = "idle") ]_vars

\* a create is answered with a hold of another client, made by another caller,
\* with another type, comment, source and expiresAt than the request's
C13_Witness ==
    /\ last.req.op = "create"
    /\ last.code = 201
    /\ last.hold \in holds
    /\ last.hold.clientId # last.req.clientId
    /\ last.hold.createdBy # get_principal(last.req.token).sub
    /\ last.hold.type # last.req.body.type
    /\ last.hold.comment # last.req.body.comment
    /\ last.hold.source # last.req.body.source
    /\ last.hold.expiresAt # last.req.body.expiresAt
    /\ \A h \in holds : h.clientId # last.req.clientId

(* C14: a create request answered 201 whose Idempotency-Key was in no row
   adds exactly one row, the hold it returns: status ACTIVE, createdBy the
   caller's subject, clientId, type, comment, source, expiresAt and
   idempotencyKey those of the request, releasedAt, releasedBy and
   releaseReason null, and a holdId no row had; the rows that were there are
   all still there, unchanged. *)
C14_CreateInsertsOneRow ==
    [][ (/\ Responds
         /\ last'.req.op = "create"
         /\ last'.code = 201
         /\ RowsOfKey(last'.req.idempotencyKey) = {})
        => (/\ last'.hold \notin holds
            /\ holds' = holds \cup {last'.hold}
            /\ \A h \in holds : h.holdId # last'.hold.holdId
            /\ last'.hold.status = "ACTIVE"
            /\ last'.hold.createdBy = get_principal(last'.req.token).sub
            /\ last'.hold.clientId = last'.req.clientId
            /\ last'.hold.type = last'.req.body.type
            /\ last'.hold.comment = last'.req.body.comment
            /\ last'.hold.source = last'.req.body.source
            /\ last'.hold.expiresAt = last'.req.body.expiresAt
            /\ last'.hold.idempotencyKey = last'.req.idempotencyKey
            /\ last'.hold.releasedAt = None
            /\ last'.hold.releasedBy = None
            /\ last'.hold.releaseReason = None) ]_vars

\* the second of two requests is a create that has inserted a second row,
\* with a comment, a source and an expiresAt
C14_Witness ==
    /\ last.req.op = "create"
    /\ last.code = 201
    /\ nreq = 2
    /\ Cardinality(holds) = 2
    /\ last.hold \in holds
    /\ IsSome(last.hold.comment)
    /\ IsSome(last.hold.source)
    /\ IsSome(last.hold.expiresAt)

\* the comment of a release request, when its body carries one
ReleaseComment(req) ==
    IF req.rbody = None THEN None ELSE Val(req.rbody).comment

(* C15: a release request answered 200 replaces the hold H with its holdId
   by the hold it returns, which differs from H in status, releasedAt,
   releasedBy and releaseReason only: they are RELEASED, the time now() of
   the request's transaction (the clock when the request was received), the
   caller's subject and the request's reason (null without a body).  Every
   other hold is unchanged, and no column of any hold holds the comment of
   the release request. *)
C15_ReleaseWritesFourFields ==
    [][ (/\ Responds
         /\ last'.req.op = "release"
         /\ last'.code = 200)
        => \E h \in holds, p \in Procs :
              /\ h.holdId = last'.req.holdId
              /\ proc[p].req = last'.req
              /\ proc[p].pc = "update_commit"
              /\ holds' = (holds \ {h}) \cup {last'.hold}
              /\ last'.hold.status = "RELEASED"
              /\ last'.hold.releasedAt = Some(proc[p].txStart)
              /\ proc[p].txStart <= now
              /\ last'.hold.releasedBy = Some(get_principal(last'.req.token).sub)
              /\ last'.hold.releaseReason =
                    (IF last'.req.rbody = None THEN None
                     ELSE Val(last'.req.rbody).reason)
              /\ last'.hold.holdId = h.holdId
              /\ last'.hold.clientId = h.clientId
              /\ last'.hold.type = h.type
              /\ last'.hold.comment = h.comment
              /\ last'.hold.source = h.source
              /\ last'.hold.createdAt = h.createdAt
              /\ last'.hold.createdBy = h.createdBy
              /\ last'.hold.expiresAt = h.expiresAt
              /\ last'.hold.idempotencyKey = h.idempotencyKey
              /\ IsSome(ReleaseComment(last'.req))
                    => \A x \in holds' :
                          /\ x.comment # ReleaseComment(last'.req)
                          /\ x.source # ReleaseComment(last'.req)
                          /\ x.releaseReason # ReleaseComment(last'.req) ]_vars

\* a release whose body carries a comment has closed a hold that has a
\* comment, a source and an expiresAt, while another hold stays ACTIVE
C15_Witness ==
    /\ last.req.op = "release"
    /\ last.code = 200
    /\ IsSome(ReleaseComment(last.req))
    /\ last.hold \in holds
    /\ IsSome(last.hold.comment)
    /\ IsSome(last.hold.expiresAt)
    /\ \E x \in holds : x.holdId # last.hold.holdId /\ x.status = "ACTIVE"

(* C16: every hold with an expiresAt has its expiresAt strictly after its
   createdAt, the clock being free to advance between the expiresAt check of
   the create request and its INSERT. *)
C16_ExpiresAfterCreated ==
    \A h \in holds : IsSome(h.expiresAt) => Val(h.expiresAt) > h.createdAt

\* the holds a list response carries
ItemsOf(resp) ==
    {resp.items[i] : i \in DOMAIN resp.items}

(* C17: a list request answered 200 carries exactly the holds of the
   request's client whose status is the filter (ACTIVE or RELEASED), or all
   of the client's holds under ALL; no hold of another client, each hold
   once, in descending order of createdAt. *)
C17_ListIsFilteredAndOrdered ==
    (last.req.op = "list" /\ last.code = 200)
        => /\ ItemsOf(last)
                = {h \in holds : /\ h.clientId = last.req.clientId
                                 /\ \/ last.req.status = "ALL"
                                    \/ h.status = last.req.status}
           /\ \A i, j \in DOMAIN last.items :
                 /\ i # j => last.items[i].holdId # last.items[j].holdId
                 /\ i < j => last.items[i].createdAt >= last.items[j].createdAt

\* a list with filter ACTIVE carries two holds of the client, made at
\* different times, the newer first
C17_Witness ==
    /\ last.req.op = "list"
    /\ last.code = 200
    /\ last.req.status = "ACTIVE"
    /\ Len(last.items) = 2
    /\ last.items[1].createdAt > last.items[2].createdAt

\* a hold whose expiresAt is not after the clock and which no release request
\* answered 200 has closed
ExpiredUnreleased(h) ==
    /\ IsSome(h.expiresAt)
    /\ Val(h.expiresAt) <= now
    /\ released[h.holdId] = 0

(* C18: no hold ever has status EXPIRED; a hold is ACTIVE for as long as no
   release request on it has been answered 200, also after its expiresAt has
   passed, and such a hold is reported by check (blocked, among activeHolds)
   and carried by a list with filter ACTIVE. *)
C18_ExpiryNotEnforced ==
    /\ \A h \in holds : /\ h.status # "EXPIRED"
                         /\ released[h.holdId] = 0 => h.status = "ACTIVE"
    /\ (last.req.op = "check" /\ last.code = 200)
          => \A h \in holds :
                (h.clientId = last.req.clientId /\ ExpiredUnreleased(h))
                    => (last.check.blocked /\ h \in last.check.activeHolds)
    /\ (last.req.op = "list" /\ last.code = 200 /\ last.req.status = "ACTIVE")
          => \A h \in holds :
                (h.clientId = last.req.clientId /\ ExpiredUnreleased(h))
                    => h \in ItemsOf(last)

\* check reports a client as blocked by a hold whose expiresAt has passed
C18_Witness ==
    /\ last.req.op = "check"
    /\ last.code = 200
    /\ last.check.blocked
    /\ \E h \in last.check.activeHolds :
          /\ h \in holds
          /\ ExpiredUnreleased(h)
          /\ h.createdAt < Val(h.expiresAt)

(* C19: the table changes only in a step that answers a create 201 with a
   row it has inserted under a key no row had, or answers 200 a release of a
   hold that was ACTIVE under the request's (clientId, holdId).  A step that
   answers a list, check or get request, a step that answers 401, 403, 404,
   409 or 422, and a step that answers a create whose key was in the table,
   leave the table as it was. *)
C19_OnlyCreateAndReleaseWrite ==
    [][ /\ holds' # holds
           => /\ Responds
              /\ \/ /\ last'.req.op = "create"
                    /\ last'.code = 201
                    /\ RowsOfKey(last'.req.idempotencyKey) = {}
                    /\ last'.hold \notin holds
                    /\ holds' = holds \cup {last'.hold}
                 \/ /\ last'.req.op = "release"
                    /\ last'.code = 200
                    /\ \E h \in holds :
                          /\ h.clientId = last'.req.clientId
                          /\ h.holdId = last'.req.holdId
                          /\ h.status = "ACTIVE"
                          /\ holds' = (holds \ {h}) \cup {last'.hold}
        /\ (/\ Responds
            /\ \/ last'.req.op \in {"list", "check", "get"}
               \/ last'.code \in {401, 403, 404, 409, 422}
               \/ /\ last'.req.op = "create"
                  /\ RowsOfKey(last'.req.idempotencyKey) # {})
           => holds' = holds ]_vars

\* a create is answered with the one hold of the table, whose type is not the
\* request's: a replay, after which the table still has one row
C19_Witness ==
    /\ last.req.op = "create"
    /\ last.code = 201
    /\ holds = {last.hold}
    /\ last.hold.type # last.req.body.type
    /\ nextHoldId = 2

\* the token of a request is valid and carries no roles claim
NoRolesClaim(req) ==
    Authenticated(req) /\ Val(req.token).roles = None

(* C20: a request without a token, or with a token that does not decode
   (malformed, wrongly signed, expired), is answered 401 in the step that
   receives it, whatever the operation and whatever roles the token names,
   and goes no further: table and workers are left as they were.  A request
   with a valid token without a roles claim has a principal with no roles,
   and the subject "unknown" when the token has no sub either, and is
   answered 403 in the step that receives it, whatever the operation. *)
C20_AuthenticationFirst ==
    [][ /\ (Responds /\ ~Authenticated(last'.req))
           => (last'.code = 401 /\ Arrives /\ holds' = holds /\ proc' = proc)
        /\ (Responds /\ NoRolesClaim(last'.req))
           => /\ last'.code = 403
              /\ Arrives
              /\ holds' = holds
              /\ proc' = proc
              /\ get_principal(last'.req.token).roles = {}
              /\ Val(last'.req.token).sub = None
                    => get_principal(last'.req.token).sub = "unknown"
        /\ \A p \in Procs :
              proc'[p].pc # "idle"
                  => (Authenticated(proc'[p].req) /\ ~NoRolesClaim(proc'[p].req))
      ]_vars

\* a token that does not decode, though it names the release role, is
\* answered 401 on the release of an ACTIVE hold of the client it names
C20_Witness ==
    /\ last.req.op = "release"
    /\ last.code = 401
    /\ last.req.token # None
    /\ ~Val(last.req.token).ok
    /\ IsSome(Val(last.req.token).roles)
    /\ "ops.block:release" \in Val(Val(last.req.token).roles)
    /\ \E h \in holds : /\ h.clientId = last.req.clientId
                         /\ h.holdId = last.req.holdId
                         /\ h.status = "ACTIVE"

====
